---------------------------- MODULE Spec2Model ----------------------------
(***************************************************************************)
(* State-machine model of TradingSystemOrchestrator (ai_trading_system.py) *)
(* as driven by the bot (main.py): analyze_stock and _process_setup, with  *)
(* the collaborators the orchestrator calls.  The collaborators whose code *)
(* is not part of the sources (regime filter, eligibility validator, the   *)
(* two engines, the probability scorer, the risk governor) are modelled by *)
(* their documented contract; their outputs are drawn from small sets.     *)
(*                                                                         *)
(* Probabilities are kept in tenths of a percent (69.9 is 699).  Risk      *)
(* percentages are kept in basis points (0.5 percent is 50).  Prices are   *)
(* whole rupees.                                                           *)
(***************************************************************************)
EXTENDS Integers, Sequences, FiniteSets, TLC

(***************************************************************************)
(* Bounds of the model.                                                    *)
(***************************************************************************)
MaxCalls == 2
MaxSetups == 2

(***************************************************************************)
(* Program constants.                                                      *)
(***************************************************************************)
Capital == 1000000
MicroThreshold == 70
BigRunnerThreshold == 65

(***************************************************************************)
(* Limits of the risk governor (configured constants of the governor).     *)
(***************************************************************************)
MaxOpenPositions == 3
MaxPositionsPerEngine == 2
MaxPositionsPerSector == 2
MaxSameDirection == 2
VixCeiling == 25
MinRiskBp == 50
MaxRiskBp == 200

VARIABLES
    config,             \* TwoEngineConfig of the orchestrator
    risk_governor,      \* PortfolioState held by the one PortfolioRiskGovernor
    pc,                 \* position inside analyze_stock / _process_setup
    ncalls,             \* number of analyze_stock calls started
    symbol, sector,     \* arguments of the current call
    stock_data, vix,    \* what the data fetcher returned
    regime_result,      \* RegimeResult of the current call
    eligibility_result, \* EligibilityResult of the current call
    engine1_setups,     \* what engine1.scan_for_setups returned
    engine2_setups,     \* what engine2.scan_for_setups returned
    engine_type,        \* which loop of analyze_stock is running
    idx,                \* index of the setup being processed in that loop
    probability_result, \* ProbabilityComponents of the setup being processed
    risk_check,         \* RiskCheckResult of the setup being processed
    sizing,             \* (shares, risk_pct) of the setup being processed
    all_signals,        \* all_signals of the current call
    result,             \* the dictionary the last call returned
    trace,              \* collaborator operations invoked by the current call
    outcomes,           \* what became of each setup processed by the current call
    pre_admission,      \* PortfolioState just before the last admission check
    session_signals,    \* signals produced since construction, per sector
    lookup_pc,          \* position of a detect_sector call
    lookup_symbol,      \* argument of detect_sector, a sequence of characters
    lookup_sector,      \* what detect_sector returned
    scan_pc,            \* position inside scan_multiple_stocks
    symbols, sectors,   \* arguments of scan_multiple_stocks
    all_results,        \* all_results of scan_multiple_stocks
    scan_signals,       \* all_signals of scan_multiple_stocks
    scan_history,       \* what each analyze_stock call of the scan returned
    scan_return,        \* the dictionary scan_multiple_stocks returned
    conversation,       \* state of the bot's ConversationHandler for the chat
    user_data,          \* context.user_data of the chat
    nupdates,           \* number of updates the bot has handled
    handled             \* the last update handled and the state it met

orchestratorVars ==
    <<config, risk_governor, pc, ncalls, symbol, sector, stock_data, vix,
      regime_result, eligibility_result, engine1_setups, engine2_setups,
      engine_type, idx, probability_result, risk_check, sizing,
      all_signals, result, trace, outcomes, pre_admission, session_signals>>

lookupVars == <<lookup_pc, lookup_symbol, lookup_sector>>

\* the state of the callers of the orchestrator and of the sector lookup
scanVars == <<scan_pc, symbols, sectors, all_results, scan_signals,
              scan_history, scan_return>>

botVars == <<conversation, user_data, nupdates, handled>>

callerVars == <<lookupVars, scanVars, botVars>>

vars == <<orchestratorVars, callerVars>>

(***************************************************************************)
(* Small helpers.                                                          *)
(***************************************************************************)
Min(a, b) == IF a <= b THEN a ELSE b
Max(a, b) == IF a >= b THEN a ELSE b

SeqsUpTo(S, n) == UNION { [1..k -> S] : k \in 0..n }

Invoked(op) == \E i \in 1..Len(trace) : trace[i] = op

TimesInvoked(op) == Cardinality({ i \in 1..Len(trace) : trace[i] = op })

\* result.get('status'): None when the dictionary has no such key
Status(r) == IF "status" \in DOMAIN r THEN r.status ELSE "None"

\* result.get('signals', [])
SignalsOf(r) == IF "signals" \in DOMAIN r THEN r.signals ELSE <<>>

(***************************************************************************)
(* Inputs: what the out-of-scope collaborators can hand to the pipeline.   *)
(***************************************************************************)
SymbolSector == [RELIANCE |-> "ENERGY", TCS |-> "IT"]
Symbols == DOMAIN SymbolSector
Sectors == { SymbolSector[s] : s \in Symbols }

NoData == [present |-> FALSE, close |-> 0]
StockData == { NoData, [present |-> TRUE, close |-> 100] }

VixReadings == { 15, 30 }

NoRegime ==
    [direction |-> "NONE", score |-> 0, eligible_for_long |-> FALSE,
     eligible_for_short |-> FALSE, index_aligned |-> FALSE]

RegimeResults ==
    { [direction |-> "UP", score |-> 80, eligible_for_long |-> TRUE,
       eligible_for_short |-> FALSE, index_aligned |-> TRUE],
      [direction |-> "DOWN", score |-> 30, eligible_for_long |-> FALSE,
       eligible_for_short |-> TRUE, index_aligned |-> TRUE],
      [direction |-> "NEUTRAL", score |-> 50, eligible_for_long |-> FALSE,
       eligible_for_short |-> FALSE, index_aligned |-> FALSE] }

NoEligibility == [is_eligible |-> FALSE, warnings |-> <<"unset">>]

EligibilityResults ==
    { [is_eligible |-> TRUE, warnings |-> <<>>],
      [is_eligible |-> FALSE, warnings |-> <<"Low turnover">>],
      [is_eligible |-> FALSE, warnings |-> <<"Wide spread", "Low turnover">>] }

\* TradeSetup of engine one: targets is the reward-multiple ladder
MicroSetups ==
    { [direction |-> "LONG", entry_price |-> 1000, stop_loss |-> 999,
       targets |-> [R10 |-> 1001], setup_type |-> "breakout"],
      [direction |-> "SHORT", entry_price |-> 100, stop_loss |-> 105,
       targets |-> [R10 |-> 95], setup_type |-> "breakdown"] }

\* BigRunnerSetup of engine two
BigRunnerSetups ==
    { [direction |-> "LONG", entry_price |-> 200, stop_loss |-> 180,
       partial_exit_target |-> 260, trailing_method |-> "ATR-trail",
       setup_type |-> "continuation"],
      [direction |-> "SHORT", entry_price |-> 200, stop_loss |-> 220,
       partial_exit_target |-> 140, trailing_method |-> "structure-trail",
       setup_type |-> "continuation"] }

NoProbability ==
    [final_probability |-> 0, market_score |-> 0, trend_score |-> 0,
     momentum_score |-> 0, volume_score |-> 0, risk_score |-> 0]

\* ProbabilityComponents the scorer can return (final_probability in tenths)
ProbabilityResults ==
    { [final_probability |-> 649, market_score |-> 60, trend_score |-> 49,
       momentum_score |-> 70, volume_score |-> 70, risk_score |-> 75],
      [final_probability |-> 650, market_score |-> 60, trend_score |-> 50,
       momentum_score |-> 70, volume_score |-> 70, risk_score |-> 75],
      [final_probability |-> 699, market_score |-> 70, trend_score |-> 74,
       momentum_score |-> 70, volume_score |-> 65, risk_score |-> 70],
      [final_probability |-> 700, market_score |-> 70, trend_score |-> 75,
       momentum_score |-> 70, volume_score |-> 65, risk_score |-> 70] }

NoRiskCheck == [allowed |-> FALSE, reason |-> "unset"]
NoSizing == [shares |-> 0, risk_pct |-> 0]
NoResult == [pending |-> TRUE]

(***************************************************************************)
(* PortfolioRiskGovernor.  PortfolioState is the capital, the VIX reading, *)
(* the open positions, each tagged with symbol, sector, direction and the  *)
(* risk committed, and the count of positions per engine.  It is changed   *)
(* only by update_vix, by an admission that is allowed (the position is    *)
(* registered) and by the sizing of the admitted position (its risk is     *)
(* committed); a rejected admission changes nothing.                       *)
(***************************************************************************)
NewPortfolio(capital) ==
    [total_capital |-> capital, current_vix |-> 15, open_positions |-> <<>>,
     engine_counts |-> [MICRO |-> 0, BIG_RUNNER |-> 0]]

update_vix(p, reading) == [p EXCEPT !.current_vix = reading]

SectorCount(p, sec) ==
    Cardinality({ i \in 1..Len(p.open_positions) : p.open_positions[i].sector = sec })

DirectionCount(p, dir) ==
    Cardinality({ i \in 1..Len(p.open_positions) : p.open_positions[i].direction = dir })

\* fail-fast: the first violated limit decides the reason
can_open_new_trade(p, sym, sec, dir, probability, engine) ==
    CASE Len(p.open_positions) >= MaxOpenPositions ->
            [allowed |-> FALSE, reason |-> "Max open positions reached"]
      [] p.engine_counts[engine] >= MaxPositionsPerEngine ->
            [allowed |-> FALSE, reason |-> "Engine position limit reached"]
      [] SectorCount(p, sec) >= MaxPositionsPerSector ->
            [allowed |-> FALSE, reason |-> "Sector limit reached"]
      [] DirectionCount(p, dir) >= MaxSameDirection ->
            [allowed |-> FALSE, reason |-> "Directional exposure limit reached"]
      [] p.current_vix > VixCeiling ->
            [allowed |-> FALSE, reason |-> "VIX too high"]
      [] OTHER -> [allowed |-> TRUE, reason |-> "None"]

\* PortfolioState after can_open_new_trade: an allowed admission registers
\* the position, a rejected one leaves the state as it was
AfterAdmission(p, sym, sec, dir, probability, engine) ==
    IF can_open_new_trade(p, sym, sec, dir, probability, engine).allowed
    THEN [p EXCEPT
            !.open_positions = Append(@, [symbol |-> sym, sector |-> sec,
                                          direction |-> dir, engine |-> engine,
                                          risk_pct |-> 0]),
            !.engine_counts[engine] = @ + 1]
    ELSE p

\* probability (tenths of a percent) to risk budget (basis points):
\* monotonic, between the floor and the ceiling
RiskBudget(probability) ==
    Min(MaxRiskBp,
        Max(MinRiskBp,
            MinRiskBp + ((MaxRiskBp - MinRiskBp) * probability) \div 1000))

\* floor(capital * riskPercent / (entry - stop)), floored at zero, then
\* clamped so that the notional does not exceed the capital
calculate_position_size(p, probability, entry_price, stop_loss) ==
    LET risk == RiskBudget(probability)
        dist == entry_price - stop_loss
        raw  == IF dist > 0
                THEN (p.total_capital * risk) \div (10000 * dist)
                ELSE 0
    IN  [shares |-> Min(Max(raw, 0), p.total_capital \div entry_price),
         risk_pct |-> risk]

\* PortfolioState after calculate_position_size: the risk of the position
\* admitted last is committed
AfterSizing(p, risk) ==
    LET n == Len(p.open_positions)
    IN  IF n = 0 THEN p
        ELSE [p EXCEPT !.open_positions[n].risk_pct = risk]

(***************************************************************************)
(* AIProbabilityScorer.meets_threshold: both bounds inclusive.             *)
(***************************************************************************)
meets_threshold(probability, engine) ==
    probability >= 10 * (IF engine = "MICRO" THEN MicroThreshold
                                             ELSE BigRunnerThreshold)

(***************************************************************************)
(* TradingSystemOrchestrator: the dictionaries analyze_stock returns.      *)
(***************************************************************************)
NoDataResult(sym) ==
    [error |-> "Failed to fetch stock data", symbol |-> sym]

NoTradeResult(sym, regime) ==
    [symbol |-> sym, status |-> "NO_TRADE",
     reason |-> "Market regime not favorable", regime |-> regime.direction]

\* only the first warning reported
NotEligibleResultFirstWarning(sym, eligibility, regime) ==
    [symbol |-> sym, status |-> "NOT_ELIGIBLE",
     reason |-> SubSeq(eligibility.warnings, 1, 1),
     regime |-> regime.direction]

NotEligibleResult(sym, eligibility, regime) ==
    [symbol |-> sym, status |-> "NOT_ELIGIBLE",
     reason |-> eligibility.warnings, regime |-> regime.direction]

SuccessResult(sym, regime, eligibility, signals, v) ==
    [symbol |-> sym, status |-> "SUCCESS", regime |-> regime.direction,
     regime_score |-> regime.score, eligible |-> eligibility.is_eligible,
     signals |-> signals, vix |-> v]

(***************************************************************************)
(* The conditions analyze_stock and _process_setup branch on.              *)
(***************************************************************************)
\* the check for missing stock data left out
NoneCheckOmitted == FALSE

StockDataMissing == ~stock_data.present

\* "not long and short" written for "not (long or short)"
RegimeBlocksMisparenthesised ==
    ~regime_result.eligible_for_long /\ regime_result.eligible_for_short

RegimeBlocks ==
    ~(regime_result.eligible_for_long \/ regime_result.eligible_for_short)

NotEligible == ~eligibility_result.is_eligible

\* the configuration switch of engine one left out of the condition
Engine1RunsUnconfigured == regime_result.eligible_for_long

Engine1Runs == config.enable_engine1 /\ regime_result.eligible_for_long

Engine2Runs == config.enable_engine2 /\ regime_result.eligible_for_long

\* the setups of the loop that is running, and the one being processed
Setups == IF engine_type = "MICRO" THEN engine1_setups ELSE engine2_setups

\* the runner switched on in both branches
ExtractSetupRunnerAlways(setup, engine) ==
    IF engine = "MICRO"
    THEN [direction |-> setup.direction, entry |-> setup.entry_price,
          stop |-> setup.stop_loss, target |-> setup.targets.R10,
          setup_name |-> setup.setup_type, expected_hold |-> "Swing",
          runner_mode |-> "ENABLED", trailing_method |-> "N/A"]
    ELSE [direction |-> setup.direction, entry |-> setup.entry_price,
          stop |-> setup.stop_loss, target |-> setup.partial_exit_target,
          setup_name |-> setup.setup_type, expected_hold |-> "Position",
          runner_mode |-> "ENABLED",
          trailing_method |-> setup.trailing_method]

\* _process_setup, "Extract setup details"
ExtractSetup(setup, engine) ==
    IF engine = "MICRO"
    THEN [direction |-> setup.direction, entry |-> setup.entry_price,
          stop |-> setup.stop_loss, target |-> setup.targets.R10,
          setup_name |-> setup.setup_type, expected_hold |-> "Swing",
          runner_mode |-> "DISABLED", trailing_method |-> "N/A"]
    ELSE [direction |-> setup.direction, entry |-> setup.entry_price,
          stop |-> setup.stop_loss, target |-> setup.partial_exit_target,
          setup_name |-> setup.setup_type, expected_hold |-> "Position",
          runner_mode |-> "ENABLED",
          trailing_method |-> setup.trailing_method]

Current == ExtractSetup(Setups[idx], engine_type)

\* the threshold of the other engine applied to every setup
ThresholdMetAsBigRunner ==
    meets_threshold(probability_result.final_probability, "BIG_RUNNER")

ThresholdMet ==
    meets_threshold(probability_result.final_probability, engine_type)

\* the sector handed to the admission check
AdmissionSector == sector

\* the result of the admission check ignored
RiskCheckIgnored == TRUE

RiskAllows == risk_check.allowed

\* entry and stop handed over in the wrong order
PositionSizeForSwapped(p, probability, extracted) ==
    calculate_position_size(p, probability, extracted.stop, extracted.entry)

\* the sizing request of _process_setup
PositionSizeFor(p, probability, extracted) ==
    calculate_position_size(p, probability, extracted.entry, extracted.stop)

\* the bands closed at the wrong end: 75 and 50 fall into the band below
TrendStrengthExclusive(trend_score) ==
    IF trend_score > 75 THEN "Strong"
    ELSE IF trend_score > 50 THEN "Medium"
    ELSE "Weak"

\* _process_setup, "Determine trend strength"
TrendStrength(trend_score) ==
    IF trend_score >= 75 THEN "Strong"
    ELSE IF trend_score >= 50 THEN "Medium"
    ELSE "Weak"

\* the TradeSignal and the dictionary _process_setup returns for it
\* (the rendered text and JSON of the formatter are left out)
BuildSignal(extracted, engine, sym, sec, data, regime, prob_result, size) ==
    [signal |->
        [engine_type |-> IF engine = "MICRO" THEN "MICRO-PROFIT" ELSE "BIG-RUNNER",
         trade_type |-> extracted.direction,
         setup_type |-> extracted.setup_name,
         ai_probability |-> prob_result.final_probability,
         entry |-> extracted.entry,
         stoploss |-> extracted.stop,
         target_1 |-> extracted.target,
         runner_mode |-> extracted.runner_mode,
         trailing_method |-> extracted.trailing_method,
         risk_per_trade |-> size.risk_pct,
         expected_hold |-> extracted.expected_hold,
         sector |-> sec,
         index_alignment |-> IF regime.index_aligned THEN "YES" ELSE "NO",
         trend_strength |-> TrendStrength(prob_result.trend_score),
         symbol |-> sym,
         current_price |-> data.close,
         probability_components |->
            [market |-> prob_result.market_score,
             trend |-> prob_result.trend_score,
             momentum |-> prob_result.momentum_score,
             volume |-> prob_result.volume_score,
             risk |-> prob_result.risk_score]],
     probability_details |-> prob_result,
     position_size |-> size.shares,
     risk_pct |-> size.risk_pct]

(***************************************************************************)
(* Initial state: the orchestrator as constructed, no call made yet.       *)
(***************************************************************************)
Configs ==
    { [capital |-> Capital, enable_engine1 |-> e1, enable_engine2 |-> e2] :
        e1 \in BOOLEAN, e2 \in BOOLEAN }

\* no detect_sector call made
LookupIdle ==
    /\ lookup_pc = "idle"
    /\ lookup_symbol = <<>>
    /\ lookup_sector = "NONE"

\* a dictionary without entries
EmptyDict == [k \in {} |-> "NONE"]

\* no scan_multiple_stocks call made
ScanIdle ==
    /\ scan_pc = "idle"
    /\ symbols = <<>>
    /\ sectors = EmptyDict
    /\ all_results = EmptyDict
    /\ scan_signals = <<>>
    /\ scan_history = <<>>
    /\ scan_return = NoResult

\* no update received by the bot
NoUpdate ==
    [handler |-> "none", text |-> <<>>, state |-> "END",
     user_data |-> EmptyDict, reply |-> "none",
     capital |-> [kind |-> "ValueError", negative |-> FALSE, whole |-> 0,
                  fraction |-> <<>>],
     sector |-> "NONE"]

BotIdle ==
    /\ conversation = "END"
    /\ user_data = EmptyDict
    /\ nupdates = 0
    /\ handled = NoUpdate

CallersIdle == LookupIdle /\ ScanIdle /\ BotIdle

\* the configuration main.py constructs the orchestrator with
BotConfig ==
    [capital |-> Capital, enable_engine1 |-> TRUE, enable_engine2 |-> TRUE]

\* the orchestrator as __init__ leaves it
Constructed(cfg) ==
    /\ config = cfg
    /\ risk_governor = NewPortfolio(cfg.capital)
    /\ pc = "idle"
    /\ ncalls = 0
    /\ symbol = "NONE"
    /\ sector = "NONE"
    /\ stock_data = NoData
    /\ vix = 0
    /\ regime_result = NoRegime
    /\ eligibility_result = NoEligibility
    /\ engine1_setups = <<>>
    /\ engine2_setups = <<>>
    /\ engine_type = "NONE"
    /\ idx = 0
    /\ probability_result = NoProbability
    /\ risk_check = NoRiskCheck
    /\ sizing = NoSizing
    /\ all_signals = <<>>
    /\ result = NoResult
    /\ trace = <<>>
    /\ outcomes = <<>>
    /\ pre_admission = NewPortfolio(cfg.capital)
    /\ session_signals = [s \in Sectors |-> 0]

Init ==
    /\ CallersIdle
    /\ \E cfg \in Configs : Constructed(cfg)

(***************************************************************************)
(* analyze_stock, step by step.  The calls run one after another: the bot  *)
(* calls analyze_stock without awaiting inside it, scan_multiple_stocks    *)
(* calls it in a loop.                                                     *)
(***************************************************************************)
callLocal == <<regime_result, eligibility_result, engine1_setups,
               engine2_setups, engine_type, idx, probability_result,
               risk_check, sizing, all_signals, outcomes>>

\* a call begun while another one stands between its admission check and
\* its sizing
FetchDataReentrant ==
    /\ pc \in {"idle", "returned", "risk_checked"}
    /\ ncalls < MaxCalls
    /\ \E sym \in Symbols, data \in StockData, v \in VixReadings :
          /\ symbol' = sym
          /\ sector' = SymbolSector[sym]
          /\ stock_data' = data
          /\ vix' = v
    /\ ncalls' = ncalls + 1
    /\ trace' = <<"fetch_stock_data", "fetch_index_data", "get_current_vix">>
    /\ regime_result' = NoRegime
    /\ eligibility_result' = NoEligibility
    /\ engine1_setups' = <<>>
    /\ engine2_setups' = <<>>
    /\ engine_type' = "NONE"
    /\ idx' = 0
    /\ probability_result' = NoProbability
    /\ risk_check' = NoRiskCheck
    /\ sizing' = NoSizing
    /\ all_signals' = <<>>
    /\ outcomes' = <<>>
    /\ result' = NoResult
    /\ pre_admission' = risk_governor
    /\ pc' = "fetched"
    /\ UNCHANGED <<callerVars, config, risk_governor, session_signals>>

\* Step 1: fetch stock data, index data and the VIX
FetchData ==
    /\ pc \in {"idle", "returned"}
    /\ ncalls < MaxCalls
    /\ \E sym \in Symbols, data \in StockData, v \in VixReadings :
          /\ symbol' = sym
          /\ sector' = SymbolSector[sym]
          /\ stock_data' = data
          /\ vix' = v
    /\ ncalls' = ncalls + 1
    /\ trace' = <<"fetch_stock_data", "fetch_index_data", "get_current_vix">>
    /\ regime_result' = NoRegime
    /\ eligibility_result' = NoEligibility
    /\ engine1_setups' = <<>>
    /\ engine2_setups' = <<>>
    /\ engine_type' = "NONE"
    /\ idx' = 0
    /\ probability_result' = NoProbability
    /\ risk_check' = NoRiskCheck
    /\ sizing' = NoSizing
    /\ all_signals' = <<>>
    /\ outcomes' = <<>>
    /\ result' = NoResult
    /\ pre_admission' = risk_governor
    /\ pc' = "fetched"
    /\ UNCHANGED <<callerVars, config, risk_governor, session_signals>>

ReturnNoData ==
    /\ pc = "fetched"
    /\ StockDataMissing
    /\ result' = NoDataResult(symbol)
    /\ pc' = "returned"
    /\ UNCHANGED <<callerVars, config, risk_governor, ncalls, symbol, sector, stock_data,
                   vix, trace, pre_admission, session_signals>>
    /\ UNCHANGED callLocal

\* the reading the governor already holds handed back to it
UpdateVixStale ==
    /\ pc = "fetched"
    /\ ~StockDataMissing
    /\ risk_governor' = update_vix(risk_governor, risk_governor.current_vix)
    /\ trace' = Append(trace, "update_vix")
    /\ pc' = "regime"
    /\ UNCHANGED <<callerVars, config, ncalls, symbol, sector, stock_data, vix, result,
                   pre_admission, session_signals>>
    /\ UNCHANGED callLocal

UpdateVix ==
    /\ pc = "fetched"
    /\ ~StockDataMissing
    /\ risk_governor' = update_vix(risk_governor, vix)
    /\ trace' = Append(trace, "update_vix")
    /\ pc' = "regime"
    /\ UNCHANGED <<callerVars, config, ncalls, symbol, sector, stock_data, vix, result,
                   pre_admission, session_signals>>
    /\ UNCHANGED callLocal

\* Step 2: market regime check
AnalyzeRegime ==
    /\ pc = "regime"
    /\ regime_result' \in RegimeResults
    /\ trace' = Append(trace, "analyze_regime")
    /\ pc' = "regime_checked"
    /\ UNCHANGED <<callerVars, config, risk_governor, ncalls, symbol, sector, stock_data,
                   vix, result, pre_admission, session_signals,
                   eligibility_result, engine1_setups, engine2_setups,
                   engine_type, idx, probability_result, risk_check, sizing,
                   all_signals, outcomes>>

ReturnNoTrade ==
    /\ pc = "regime_checked"
    /\ RegimeBlocks
    /\ result' = NoTradeResult(symbol, regime_result)
    /\ pc' = "returned"
    /\ UNCHANGED <<callerVars, config, risk_governor, ncalls, symbol, sector, stock_data,
                   vix, trace, pre_admission, session_signals>>
    /\ UNCHANGED callLocal

\* Step 3: stock eligibility
ValidateStock ==
    /\ pc = "regime_checked"
    /\ ~RegimeBlocks
    /\ eligibility_result' \in EligibilityResults
    /\ trace' = Append(trace, "validate_stock")
    /\ pc' = "validated"
    /\ UNCHANGED <<callerVars, config, risk_governor, ncalls, symbol, sector, stock_data,
                   vix, result, pre_admission, session_signals,
                   regime_result, engine1_setups, engine2_setups,
                   engine_type, idx, probability_result, risk_check, sizing,
                   all_signals, outcomes>>

ReturnNotEligible ==
    /\ pc = "validated"
    /\ NotEligible
    /\ result' = NotEligibleResult(symbol, eligibility_result, regime_result)
    /\ pc' = "returned"
    /\ UNCHANGED <<callerVars, config, risk_governor, ncalls, symbol, sector, stock_data,
                   vix, trace, pre_admission, session_signals>>
    /\ UNCHANGED callLocal

\* Step 4: scan for setups, engine one
ScanEngine1 ==
    /\ pc = "validated"
    /\ ~NotEligible
    /\ Engine1Runs
    /\ engine1_setups' \in SeqsUpTo(MicroSetups, MaxSetups)
    /\ trace' = Append(trace, "engine1.scan_for_setups")
    /\ engine_type' = "MICRO"
    /\ idx' = 1
    /\ all_signals' = <<>>
    /\ pc' = "loop"
    /\ UNCHANGED <<callerVars, config, risk_governor, ncalls, symbol, sector, stock_data,
                   vix, result, pre_admission, session_signals,
                   regime_result, eligibility_result, engine2_setups,
                   probability_result, risk_check, sizing, outcomes>>

SkipEngine1 ==
    /\ pc = "validated"
    /\ ~NotEligible
    /\ ~Engine1Runs
    /\ engine_type' = "MICRO"
    /\ idx' = 1
    /\ all_signals' = <<>>
    /\ pc' = "loop"
    /\ UNCHANGED <<callerVars, config, risk_governor, ncalls, symbol, sector, stock_data,
                   vix, result, trace, pre_admission, session_signals,
                   regime_result, eligibility_result, engine1_setups,
                   engine2_setups, probability_result, risk_check, sizing,
                   outcomes>>

\* engine two, once the loop over the setups of engine one has ended
ScanEngine2 ==
    /\ pc = "loop"
    /\ engine_type = "MICRO"
    /\ idx > Len(engine1_setups)
    /\ Engine2Runs
    /\ engine2_setups' \in SeqsUpTo(BigRunnerSetups, MaxSetups)
    /\ trace' = Append(trace, "engine2.scan_for_setups")
    /\ engine_type' = "BIG_RUNNER"
    /\ idx' = 1
    /\ UNCHANGED <<callerVars, config, risk_governor, ncalls, symbol, sector, stock_data,
                   vix, result, pc, pre_admission, session_signals,
                   regime_result, eligibility_result, engine1_setups,
                   probability_result, risk_check, sizing, all_signals,
                   outcomes>>

SkipEngine2 ==
    /\ pc = "loop"
    /\ engine_type = "MICRO"
    /\ idx > Len(engine1_setups)
    /\ ~Engine2Runs
    /\ engine_type' = "BIG_RUNNER"
    /\ idx' = 1
    /\ UNCHANGED <<callerVars, config, risk_governor, ncalls, symbol, sector, stock_data,
                   vix, result, trace, pc, pre_admission, session_signals,
                   regime_result, eligibility_result, engine1_setups,
                   engine2_setups, probability_result, risk_check, sizing,
                   all_signals, outcomes>>

\* Step 5: return results
ReturnSuccess ==
    /\ pc = "loop"
    /\ engine_type = "BIG_RUNNER"
    /\ idx > Len(engine2_setups)
    /\ result' = SuccessResult(symbol, regime_result, eligibility_result,
                               all_signals, vix)
    /\ pc' = "returned"
    /\ UNCHANGED <<callerVars, config, risk_governor, ncalls, symbol, sector, stock_data,
                   vix, trace, pre_admission, session_signals>>
    /\ UNCHANGED callLocal

(***************************************************************************)
(* _process_setup, step by step, for the setup Setups[idx].                *)
(***************************************************************************)
processFrame == <<callerVars, config, ncalls, symbol, sector, stock_data, vix, result,
                  regime_result, eligibility_result, engine1_setups,
                  engine2_setups, engine_type>>

CalculateProbability ==
    /\ pc = "loop"
    /\ idx <= Len(Setups)
    /\ probability_result' \in ProbabilityResults
    /\ trace' = Append(trace, "calculate_probability")
    /\ pc' = "scored"
    /\ UNCHANGED processFrame
    /\ UNCHANGED <<risk_governor, idx, risk_check, sizing, all_signals,
                   outcomes, pre_admission, session_signals>>

\* a rejected setup ends the loop over the remaining setups
RejectBelowThresholdEndsLoop ==
    /\ pc = "scored"
    /\ ~ThresholdMet
    /\ trace' = Append(trace, "meets_threshold")
    /\ outcomes' = Append(outcomes, [engine |-> engine_type,
                                     outcome |-> "below_threshold"])
    /\ idx' = Len(Setups) + 1
    /\ pc' = "loop"
    /\ UNCHANGED processFrame
    /\ UNCHANGED <<risk_governor, probability_result, risk_check, sizing,
                   all_signals, pre_admission, session_signals>>

RejectBelowThreshold ==
    /\ pc = "scored"
    /\ ~ThresholdMet
    /\ trace' = Append(trace, "meets_threshold")
    /\ outcomes' = Append(outcomes, [engine |-> engine_type,
                                     outcome |-> "below_threshold"])
    /\ idx' = idx + 1
    /\ pc' = "loop"
    /\ UNCHANGED processFrame
    /\ UNCHANGED <<risk_governor, probability_result, risk_check, sizing,
                   all_signals, pre_admission, session_signals>>

\* the admission check made whatever meets_threshold returned
CheckRiskLimitsUngated ==
    /\ pc = "scored"
    /\ trace' = trace \o <<"meets_threshold", "can_open_new_trade">>
    /\ pre_admission' = risk_governor
    /\ risk_check' = can_open_new_trade(risk_governor, symbol, AdmissionSector,
                        Current.direction,
                        probability_result.final_probability, engine_type)
    /\ risk_governor' = AfterAdmission(risk_governor, symbol, AdmissionSector,
                        Current.direction,
                        probability_result.final_probability, engine_type)
    /\ pc' = "risk_checked"
    /\ UNCHANGED processFrame
    /\ UNCHANGED <<idx, probability_result, sizing, all_signals, outcomes,
                   session_signals>>

CheckRiskLimits ==
    /\ pc = "scored"
    /\ ThresholdMet
    /\ trace' = trace \o <<"meets_threshold", "can_open_new_trade">>
    /\ pre_admission' = risk_governor
    /\ risk_check' = can_open_new_trade(risk_governor, symbol, AdmissionSector,
                        Current.direction,
                        probability_result.final_probability, engine_type)
    /\ risk_governor' = AfterAdmission(risk_governor, symbol, AdmissionSector,
                        Current.direction,
                        probability_result.final_probability, engine_type)
    /\ pc' = "risk_checked"
    /\ UNCHANGED processFrame
    /\ UNCHANGED <<idx, probability_result, sizing, all_signals, outcomes,
                   session_signals>>

\* the position sized before the result of the admission check is looked at
RejectRiskAfterSizing ==
    /\ pc = "risk_checked"
    /\ ~RiskAllows
    /\ sizing' = PositionSizeFor(risk_governor,
                    probability_result.final_probability, Current)
    /\ risk_governor' = AfterSizing(risk_governor,
                    PositionSizeFor(risk_governor,
                        probability_result.final_probability, Current).risk_pct)
    /\ trace' = Append(trace, "calculate_position_size")
    /\ outcomes' = Append(outcomes, [engine |-> engine_type,
                                     outcome |-> "risk_rejected"])
    /\ idx' = idx + 1
    /\ pc' = "loop"
    /\ UNCHANGED processFrame
    /\ UNCHANGED <<probability_result, risk_check, all_signals,
                   pre_admission, session_signals>>

RejectRisk ==
    /\ pc = "risk_checked"
    /\ ~RiskAllows
    /\ outcomes' = Append(outcomes, [engine |-> engine_type,
                                     outcome |-> "risk_rejected"])
    /\ idx' = idx + 1
    /\ pc' = "loop"
    /\ UNCHANGED processFrame
    /\ UNCHANGED <<risk_governor, probability_result, risk_check, sizing,
                   all_signals, trace, pre_admission, session_signals>>

CalculatePositionSize ==
    /\ pc = "risk_checked"
    /\ RiskAllows
    /\ sizing' = PositionSizeFor(risk_governor,
                    probability_result.final_probability, Current)
    /\ risk_governor' = AfterSizing(risk_governor,
                    PositionSizeFor(risk_governor,
                        probability_result.final_probability, Current).risk_pct)
    /\ trace' = Append(trace, "calculate_position_size")
    /\ pc' = "sized"
    /\ UNCHANGED processFrame
    /\ UNCHANGED <<idx, probability_result, risk_check, all_signals, outcomes,
                   pre_admission, session_signals>>

AssembleSignal ==
    /\ pc = "sized"
    /\ all_signals' = Append(all_signals,
            BuildSignal(Current, engine_type, symbol, sector, stock_data,
                        regime_result, probability_result, sizing))
    /\ session_signals' = [session_signals EXCEPT ![sector] = @ + 1]
    /\ outcomes' = Append(outcomes, [engine |-> engine_type,
                                     outcome |-> "signal"])
    /\ trace' = Append(trace, "format_signal")
    /\ idx' = idx + 1
    /\ pc' = "loop"
    /\ UNCHANGED processFrame
    /\ UNCHANGED <<risk_governor, probability_result, risk_check, sizing,
                   pre_admission>>

Next ==
    \/ FetchData
    \/ ReturnNoData
    \/ UpdateVix
    \/ AnalyzeRegime
    \/ ReturnNoTrade
    \/ ValidateStock
    \/ ReturnNotEligible
    \/ ScanEngine1
    \/ SkipEngine1
    \/ ScanEngine2
    \/ SkipEngine2
    \/ ReturnSuccess
    \/ CalculateProbability
    \/ RejectBelowThreshold
    \/ CheckRiskLimits
    \/ RejectRisk
    \/ CalculatePositionSize
    \/ AssembleSignal

Spec == Init /\ [][Next]_vars

(***************************************************************************)
(* _process_setup for one candidate, taken up where calculate_probability  *)
(* has returned, over a wider range of scorer outputs and regimes than the *)
(* two-call specification above affords: every combination of a final      *)
(* probability around the thresholds with a trend score around the bands,  *)
(* with and without index alignment, on a calm and on a volatile market.   *)
(***************************************************************************)
\* regimes under which analyze_stock reaches the scans (eligible_for_long)
ScanningRegimes ==
    { [direction |-> "UP", score |-> 80, eligible_for_long |-> TRUE,
       eligible_for_short |-> es, index_aligned |-> al] :
        es \in BOOLEAN, al \in BOOLEAN }

\* ProbabilityComponents: one record per pair of final probability and trend
\* score (the market score differs with the final probability, so that no
\* two records share their five sub-scores)
WideProbabilityResults ==
    { [final_probability |-> f, market_score |-> f \div 10, trend_score |-> t,
       momentum_score |-> 70, volume_score |-> 65, risk_score |-> 70] :
        f \in {649, 650, 699, 700, 720}, t \in {0, 49, 50, 74, 75, 100} }

\* the operations of one call up to the scoring of the first setup
TraceToScoring(engine) ==
    <<"fetch_stock_data", "fetch_index_data", "get_current_vix", "update_vix",
      "analyze_regime", "validate_stock", "engine1.scan_for_setups">>
    \o (IF engine = "MICRO" THEN <<>> ELSE <<"engine2.scan_for_setups">>)
    \o <<"calculate_probability">>

\* the state in which _process_setup has scored the one setup of a scan
CandidateScored(micro, bigrunner, regimes) ==
    /\ CallersIdle
    /\ config = BotConfig
    /\ vix \in VixReadings
    /\ risk_governor = update_vix(NewPortfolio(config.capital), vix)
    /\ pc = "scored"
    /\ ncalls = 1
    /\ symbol \in Symbols
    /\ sector = SymbolSector[symbol]
    /\ stock_data = [present |-> TRUE, close |-> 100]
    /\ regime_result \in regimes
    /\ eligibility_result = [is_eligible |-> TRUE, warnings |-> <<>>]
    /\ engine_type \in {"MICRO", "BIG_RUNNER"}
    /\ engine1_setups \in (IF engine_type = "MICRO"
                            THEN { <<s>> : s \in micro } ELSE { <<>> })
    /\ engine2_setups \in (IF engine_type = "MICRO"
                            THEN { <<>> } ELSE { <<s>> : s \in bigrunner })
    /\ idx = 1
    /\ probability_result \in WideProbabilityResults
    /\ risk_check = NoRiskCheck
    /\ sizing = NoSizing
    /\ all_signals = <<>>
    /\ result = NoResult
    /\ trace = TraceToScoring(engine_type)
    /\ outcomes = <<>>
    /\ pre_admission = risk_governor
    /\ session_signals = [s \in Sectors |-> 0]

SetupInit == CandidateScored(MicroSetups, BigRunnerSetups, ScanningRegimes)

SetupNext ==
    \/ RejectBelowThreshold
    \/ CheckRiskLimits
    \/ RejectRisk
    \/ CalculatePositionSize
    \/ AssembleSignal

SetupSpec == SetupInit /\ [][SetupNext]_vars

(***************************************************************************)
(* The same steps when a scanner breaks its contract and hands over a      *)
(* setup that is not well formed: a stop on the wrong side of the entry    *)
(* with the target on the wrong side too, or a price that is not positive. *)
(***************************************************************************)
MalformedMicroSetups ==
    { [direction |-> "LONG", entry_price |-> 100, stop_loss |-> 105,
       targets |-> [R10 |-> 95], setup_type |-> "breakout"],
      [direction |-> "LONG", entry_price |-> 100, stop_loss |-> 0,
       targets |-> [R10 |-> 200], setup_type |-> "breakout"] }

MalformedBigRunnerSetups ==
    { [direction |-> "SHORT", entry_price |-> 200, stop_loss |-> 180,
       partial_exit_target |-> 260, trailing_method |-> "ATR-trail",
       setup_type |-> "continuation"],
      [direction |-> "LONG", entry_price |-> 200, stop_loss |-> 180,
       partial_exit_target |-> 0 - 260, trailing_method |-> "ATR-trail",
       setup_type |-> "continuation"] }

ContractInit ==
    CandidateScored(MicroSetups \cup MalformedMicroSetups,
                    BigRunnerSetups \cup MalformedBigRunnerSetups,
                    ScanningRegimes)

ContractSpec == ContractInit /\ [][SetupNext]_vars

(***************************************************************************)
(* stock_sector_lookup.py.  A symbol is a sequence of characters.  The     *)
(* table is the dictionary literal pair by pair, in the order written; a   *)
(* key written twice keeps the place of its first pair and the sector of   *)
(* its last, as the dictionary built from the literal does.                *)
(***************************************************************************)
STOCK_SECTORS ==
    << [key |-> <<"H", "D", "F", "C", "B", "A", "N", "K">>, sector |-> "BANKING"],
      [key |-> <<"I", "C", "I", "C", "I", "B", "A", "N", "K">>, sector |-> "BANKING"],
      [key |-> <<"S", "B", "I", "N">>, sector |-> "BANKING"],
      [key |-> <<"A", "X", "I", "S", "B", "A", "N", "K">>, sector |-> "BANKING"],
      [key |-> <<"K", "O", "T", "A", "K", "B", "A", "N", "K">>, sector |-> "BANKING"],
      [key |-> <<"I", "N", "D", "U", "S", "I", "N", "D", "B", "K">>, sector |-> "BANKING"],
      [key |-> <<"B", "A", "N", "D", "H", "A", "N", "B", "N", "K">>, sector |-> "BANKING"],
      [key |-> <<"F", "E", "D", "E", "R", "A", "L", "B", "N", "K">>, sector |-> "BANKING"],
      [key |-> <<"I", "D", "F", "C", "F", "I", "R", "S", "T", "B">>, sector |-> "BANKING"],
      [key |-> <<"T", "C", "S">>, sector |-> "IT"],
      [key |-> <<"I", "N", "F", "Y">>, sector |-> "IT"],
      [key |-> <<"W", "I", "P", "R", "O">>, sector |-> "IT"],
      [key |-> <<"H", "C", "L", "T", "E", "C", "H">>, sector |-> "IT"],
      [key |-> <<"T", "E", "C", "H", "M">>, sector |-> "IT"],
      [key |-> <<"L", "T", "I", "M">>, sector |-> "IT"],
      [key |-> <<"C", "O", "F", "O", "R", "G", "E">>, sector |-> "IT"],
      [key |-> <<"M", "P", "H", "A", "S", "I", "S">>, sector |-> "IT"],
      [key |-> <<"T", "A", "T", "A", "M", "O", "T", "O", "R", "S">>, sector |-> "AUTO"],
      [key |-> <<"M", "&", "M">>, sector |-> "AUTO"],
      [key |-> <<"M", "A", "R", "U", "T", "I">>, sector |-> "AUTO"],
      [key |-> <<"B", "A", "J", "A", "J", "-", "A", "U", "T", "O">>, sector |-> "AUTO"],
      [key |-> <<"E", "I", "C", "H", "E", "R", "M", "O", "T">>, sector |-> "AUTO"],
      [key |-> <<"H", "E", "R", "O", "M", "O", "T", "O", "C", "O", "R", "P">>, sector |-> "AUTO"],
      [key |-> <<"A", "S", "H", "O", "K", "L", "E", "Y">>, sector |-> "AUTO"],
      [key |-> <<"S", "U", "N", "P", "H", "A", "R", "M", "A">>, sector |-> "PHARMA"],
      [key |-> <<"D", "R", "R", "E", "D", "D", "Y">>, sector |-> "PHARMA"],
      [key |-> <<"C", "I", "P", "L", "A">>, sector |-> "PHARMA"],
      [key |-> <<"D", "I", "V", "I", "S", "L", "A", "B">>, sector |-> "PHARMA"],
      [key |-> <<"B", "I", "O", "C", "O", "N">>, sector |-> "PHARMA"],
      [key |-> <<"A", "U", "R", "O", "P", "H", "A", "R", "M", "A">>, sector |-> "PHARMA"],
      [key |-> <<"H", "I", "N", "D", "U", "N", "I", "L", "V", "R">>, sector |-> "FMCG"],
      [key |-> <<"I", "T", "C">>, sector |-> "FMCG"],
      [key |-> <<"N", "E", "S", "T", "L", "E", "I", "N", "D">>, sector |-> "FMCG"],
      [key |-> <<"B", "R", "I", "T", "A", "N", "N", "I", "A">>, sector |-> "FMCG"],
      [key |-> <<"D", "A", "B", "U", "R">>, sector |-> "FMCG"],
      [key |-> <<"M", "A", "R", "I", "C", "O">>, sector |-> "FMCG"],
      [key |-> <<"R", "E", "L", "I", "A", "N", "C", "E">>, sector |-> "ENERGY"],
      [key |-> <<"O", "N", "G", "C">>, sector |-> "ENERGY"],
      [key |-> <<"B", "P", "C", "L">>, sector |-> "ENERGY"],
      [key |-> <<"I", "O", "C">>, sector |-> "ENERGY"],
      [key |-> <<"G", "A", "I", "L">>, sector |-> "ENERGY"],
      [key |-> <<"C", "O", "A", "L", "I", "N", "D", "I", "A">>, sector |-> "ENERGY"],
      [key |-> <<"T", "A", "T", "A", "S", "T", "E", "E", "L">>, sector |-> "METALS"],
      [key |-> <<"H", "I", "N", "D", "A", "L", "C", "O">>, sector |-> "METALS"],
      [key |-> <<"J", "S", "W", "S", "T", "E", "E", "L">>, sector |-> "METALS"],
      [key |-> <<"S", "A", "I", "L">>, sector |-> "METALS"],
      [key |-> <<"V", "E", "D", "L">>, sector |-> "METALS"],
      [key |-> <<"N", "A", "T", "I", "O", "N", "A", "L", "U", "M">>, sector |-> "METALS"],
      [key |-> <<"L", "T">>, sector |-> "INFRA"],
      [key |-> <<"A", "D", "A", "N", "I", "P", "O", "R", "T", "S">>, sector |-> "INFRA"],
      [key |-> <<"A", "D", "A", "N", "I", "E", "N", "T">>, sector |-> "INFRA"],
      [key |-> <<"B", "A", "J", "F", "I", "N", "A", "N", "C", "E">>, sector |-> "FINANCE"],
      [key |-> <<"B", "A", "J", "A", "J", "F", "I", "N", "S", "V">>, sector |-> "FINANCE"],
      [key |-> <<"C", "H", "O", "L", "A", "F", "I", "N">>, sector |-> "FINANCE"],
      [key |-> <<"S", "B", "I", "L", "I", "F", "E">>, sector |-> "FINANCE"],
      [key |-> <<"H", "D", "F", "C", "L", "I", "F", "E">>, sector |-> "FINANCE"],
      [key |-> <<"I", "C", "I", "C", "I", "P", "R", "U", "L", "I">>, sector |-> "FINANCE"],
      [key |-> <<"D", "L", "F">>, sector |-> "REALTY"],
      [key |-> <<"G", "O", "D", "R", "E", "J", "P", "R", "O", "P">>, sector |-> "REALTY"],
      [key |-> <<"O", "B", "E", "R", "O", "I", "R", "L", "T", "Y">>, sector |-> "REALTY"],
      [key |-> <<"U", "L", "T", "R", "A", "C", "E", "M", "C", "O">>, sector |-> "CEMENT"],
      [key |-> <<"G", "R", "A", "S", "I", "M">>, sector |-> "CEMENT"],
      [key |-> <<"S", "H", "R", "E", "E", "C", "E", "M">>, sector |-> "CEMENT"],
      [key |-> <<"B", "H", "A", "R", "T", "I", "A", "R", "T", "L">>, sector |-> "TELECOM"],
      [key |-> <<"I", "N", "D", "U", "S", "I", "N", "D", "B", "K">>, sector |-> "TELECOM"],
      [key |-> <<"A", "S", "I", "A", "N", "P", "A", "I", "N", "T">>, sector |-> "PAINTS"],
      [key |-> <<"B", "E", "R", "G", "E", "R">>, sector |-> "PAINTS"] >>

\* the pairs of the dictionary: for each key the first pair that names it
Items == { i \in 1..Len(STOCK_SECTORS) :
             \A j \in 1..(i - 1) : STOCK_SECTORS[j].key # STOCK_SECTORS[i].key }

\* STOCK_SECTORS[k]: the sector of the last pair that names the key
SectorOfKey(k) ==
    LET last == CHOOSE i \in 1..Len(STOCK_SECTORS) :
                    /\ STOCK_SECTORS[i].key = k
                    /\ \A j \in (i + 1)..Len(STOCK_SECTORS) :
                          STOCK_SECTORS[j].key # k
    IN  STOCK_SECTORS[last].sector

\* k in STOCK_SECTORS
IsKey(k) == \E i \in 1..Len(STOCK_SECTORS) : STOCK_SECTORS[i].key = k

\* str.upper() on the letters of the symbols
UpperCase ==
    [a |-> "A", b |-> "B", c |-> "C", d |-> "D", e |-> "E", f |-> "F",
     g |-> "G", h |-> "H", i |-> "I", j |-> "J", k |-> "K", l |-> "L",
     m |-> "M", n |-> "N", o |-> "O", p |-> "P", q |-> "Q", r |-> "R",
     s |-> "S", t |-> "T", u |-> "U", v |-> "V", w |-> "W", x |-> "X",
     y |-> "Y", z |-> "Z"]

upper(str) ==
    [i \in 1..Len(str) |->
        IF str[i] \in DOMAIN UpperCase THEN UpperCase[str[i]] ELSE str[i]]

\* str.replace(old, ''): every occurrence of old, left to right, without
\* looking again at what has been joined
RECURSIVE remove(_, _)
remove(str, old) ==
    IF Len(str) < Len(old) THEN str
    ELSE IF SubSeq(str, 1, Len(old)) = old
         THEN remove(SubSeq(str, Len(old) + 1, Len(str)), old)
         ELSE <<Head(str)>> \o remove(Tail(str), old)

\* needle in hay
contains(hay, needle) ==
    \E i \in 0..(Len(hay) - Len(needle)) :
        SubSeq(hay, i + 1, i + Len(needle)) = needle

DotNS == <<".", "N", "S">>
DotBO == <<".", "B", "O">>

\* detect_sector, "Remove common suffixes"
clean_symbol(str) == remove(remove(upper(str), DotNS), DotBO)

\* detect_sector, "Fuzzy matching": the loop over the items from pair i on
RECURSIVE fuzzy_match(_, _)
fuzzy_match(clean, i) ==
    IF i > Len(STOCK_SECTORS) THEN "UNKNOWN"
    ELSE IF i \in Items
            /\ (contains(STOCK_SECTORS[i].key, clean)
                \/ contains(clean, STOCK_SECTORS[i].key))
         THEN SectorOfKey(STOCK_SECTORS[i].key)
         ELSE fuzzy_match(clean, i + 1)

\* the fuzzy matching tried before the direct lookup
detect_sector_fuzzy_first(str) ==
    IF fuzzy_match(clean_symbol(str), 1) # "UNKNOWN"
    THEN fuzzy_match(clean_symbol(str), 1)
    ELSE IF IsKey(clean_symbol(str)) THEN SectorOfKey(clean_symbol(str))
         ELSE "UNKNOWN"

detect_sector(str) ==
    IF IsKey(clean_symbol(str)) THEN SectorOfKey(clean_symbol(str))
    ELSE fuzzy_match(clean_symbol(str), 1)

\* get_all_sectors
AllSectors == { STOCK_SECTORS[i].sector : i \in 1..Len(STOCK_SECTORS) }

(***************************************************************************)
(* detect_sector applied to one symbol: symbols of the table, with and     *)
(* without exchange suffix and in either case, symbols not in the table,   *)
(* and every string of up to MaxSymbolLen characters of a small alphabet.  *)
(***************************************************************************)
MaxSymbolLen == 2

LookupAlphabet == {"L", "T", "I", "t", "Z", "."}

LookupSymbols ==
    SeqsUpTo(LookupAlphabet, MaxSymbolLen) \cup
    { <<"R", "E", "L", "I", "A", "N", "C", "E">>,
      <<"T", "C", "S">>,
      <<"R", "A", "N", "D", "O", "M", "S", "T", "O", "C", "K">>,
      <<"r", "e", "l", "i", "a", "n", "c", "e", ".", "n", "s">>,
      <<"T", "c", "s", ".", "B", "O">>,
      <<"L", "T", ".", "N", "S">>,
      <<"I", "N", "D", "U", "S", "I", "N", "D", "B", "K">>,
      <<"T", "A", "T", "A">>,
      <<"H", "D", "F", "C">>,
      <<"M", "&", "M">>,
      <<"B", "A", "J", "A", "J">>,
      <<"I", "N", "F", "Y", ".", "N", "S", ".", "B", "O">>,
      <<".", "B", ".", "N", "S", "O">>,
      <<".", "N", "S">>,
      <<"T", "C", "S", ".", "N", "S", "E">>,
      <<"X", "Y", "Z">>,
      <<"Q", "Q", ".", "B", "O">>,
      <<"I", "N", "D", "U", "S", "I", "N", "D">> }

LookupInit ==
    /\ lookup_pc = "called"
    /\ lookup_symbol \in LookupSymbols
    /\ lookup_sector = "NONE"
    /\ ScanIdle
    /\ BotIdle
    /\ Constructed(BotConfig)

DetectSector ==
    /\ lookup_pc = "called"
    /\ lookup_sector' = detect_sector(lookup_symbol)
    /\ lookup_pc' = "returned"
    /\ UNCHANGED <<lookup_symbol, orchestratorVars, scanVars, botVars>>

LookupNext == DetectSector

LookupSpec == LookupInit /\ [][LookupNext]_vars

(***************************************************************************)
(* scan_multiple_stocks.  Each turn of its loop calls analyze_stock, whose *)
(* steps are the subject of the specifications above; here the call is     *)
(* represented by the dictionary it returns, any of those analyze_stock    *)
(* can return for the symbol.                                              *)
(***************************************************************************)
MaxScan == 2

\* signals analyze_stock can put into a SUCCESS result: a long setup of each
\* engine, scored at the threshold of its engine and sized
ReturnableSignals(sym, sec) ==
    { BuildSignal(ExtractSetup(s, "MICRO"), "MICRO", sym, sec,
                  [present |-> TRUE, close |-> 100], r, q,
                  calculate_position_size(NewPortfolio(Capital),
                      q.final_probability, s.entry_price, s.stop_loss)) :
        s \in { m \in MicroSetups : m.direction = "LONG" },
        r \in { x \in RegimeResults : x.eligible_for_long },
        q \in { y \in ProbabilityResults :
                  y.final_probability = 10 * MicroThreshold } }
    \cup
    { BuildSignal(ExtractSetup(s, "BIG_RUNNER"), "BIG_RUNNER", sym, sec,
                  [present |-> TRUE, close |-> 100], r, q,
                  calculate_position_size(NewPortfolio(Capital),
                      q.final_probability, s.entry_price, s.stop_loss)) :
        s \in { m \in BigRunnerSetups : m.direction = "LONG" },
        r \in { x \in RegimeResults : x.eligible_for_long },
        q \in { y \in ProbabilityResults :
                  y.final_probability = 10 * BigRunnerThreshold } }

\* the dictionaries analyze_stock can return for a symbol
AnalysisResults(sym, sec) ==
    { NoDataResult(sym) }
    \cup
    { NoTradeResult(sym, r) :
        r \in { x \in RegimeResults :
                  ~(x.eligible_for_long \/ x.eligible_for_short) } }
    \cup
    { NotEligibleResult(sym, e, r) :
        e \in { x \in EligibilityResults : ~x.is_eligible },
        r \in { x \in RegimeResults : x.eligible_for_long } }
    \cup
    UNION { { SuccessResult(sym, r, e, sigs, v) :
                sigs \in (IF r.eligible_for_long /\ v <= VixCeiling
                          THEN SeqsUpTo(ReturnableSignals(sym, sec), 2)
                          ELSE { <<>> }),
                e \in { x \in EligibilityResults : x.is_eligible } } :
            r \in { x \in RegimeResults :
                      x.eligible_for_long \/ x.eligible_for_short },
            v \in VixReadings }

\* all_results[symbol] = result
Store(dict, key, value) ==
    [k \in DOMAIN dict \cup {key} |-> IF k = key THEN value ELSE dict[k]]

\* the signals of the result put in the place of those collected so far
ExtendSignalsOverwrites(signals, r) ==
    IF Status(r) = "SUCCESS" /\ SignalsOf(r) # <<>>
    THEN r.signals
    ELSE signals

\* if result.get('status') == 'SUCCESS' and result.get('signals'):
\*     all_signals.extend(result['signals'])
ExtendSignals(signals, r) ==
    IF Status(r) = "SUCCESS" /\ SignalsOf(r) # <<>>
    THEN signals \o r.signals
    ELSE signals

ScanInit ==
    /\ scan_pc = "scanning"
    /\ symbols \in SeqsUpTo(Symbols, MaxScan)
    /\ sectors \in { EmptyDict, SymbolSector }
    /\ all_results = EmptyDict
    /\ scan_signals = <<>>
    /\ scan_history = <<>>
    /\ scan_return = NoResult
    /\ LookupIdle
    /\ BotIdle
    /\ Constructed(BotConfig)

\* one turn of the loop over the symbols
ScanAnalyze ==
    /\ scan_pc = "scanning"
    /\ Len(scan_history) < Len(symbols)
    /\ LET sym == symbols[Len(scan_history) + 1]
           sec == IF sym \in DOMAIN sectors THEN sectors[sym] ELSE "UNKNOWN"
       IN  \E r \in AnalysisResults(sym, sec) :
              /\ all_results' = Store(all_results, sym, r)
              /\ scan_signals' = ExtendSignals(scan_signals, r)
              /\ scan_history' = Append(scan_history, r)
    /\ UNCHANGED <<scan_pc, symbols, sectors, scan_return, lookupVars,
                   botVars, orchestratorVars>>

ScanReturn ==
    /\ scan_pc = "scanning"
    /\ Len(scan_history) = Len(symbols)
    /\ scan_return' = [total_stocks_scanned |-> Len(symbols),
                       total_signals |-> Len(scan_signals),
                       signals |-> scan_signals,
                       detailed_results |-> all_results]
    /\ scan_pc' = "returned"
    /\ UNCHANGED <<symbols, sectors, all_results, scan_signals, scan_history,
                   lookupVars, botVars, orchestratorVars>>

ScanNext == ScanAnalyze \/ ScanReturn

ScanSpec == ScanInit /\ [][ScanNext]_vars

(***************************************************************************)
(* The bot conversation of main.py for one chat.  Text messages are        *)
(* sequences of characters: the examples below and every string of up to   *)
(* MaxMessageLen characters of a small alphabet.  None of them holds an     *)
(* exponent or an underscore between digits, forms float() also accepts,    *)
(* and none has digits enough for the rounding of floats to matter.  The    *)
(* analyze_stock call of receive_stock is represented by what the handler   *)
(* makes of it: a result with an error entry, a result without, or an       *)
(* exception.                                                              *)
(***************************************************************************)
MaxUpdates == 5
MaxMessageLen == 2

MinCapital == 5000
DefaultCapital == 50000
SymbolLenMin == 2
SymbolLenMax == 20

MessageAlphabet == {"5", "0", "n", "a", ",", " "}

Messages ==
    SeqsUpTo(MessageAlphabet, MaxMessageLen) \cup
    { <<"5", "0", "0", "0", "0">>,
      <<"1", ",", "0", "0", ",", "0", "0", "0">>,
      <<"5", "0", "0", "0">>,
      <<"4", "9", "9", "9">>,
      <<"4", "9", "9", "9", ".", "9">>,
      <<"5", "0", "0", "0", ".", "0">>,
      <<"1", "0", "0", "0", "0", ".">>,
      <<" ", "7", "5", "0", "0", " ">>,
      <<"n", "a", "n">>,
      <<"N", "a", "N">>,
      <<"+", "n", "a", "n">>,
      <<"-", "n", "a", "n">>,
      <<"n", ",", "a", "n">>,
      <<"i", "n", "f">>,
      <<"-", "i", "n", "f">>,
      <<"I", "n", "f", "i", "n", "i", "t", "y">>,
      <<"-", "5", "0", "0", "0">>,
      <<"+", "6", "0", "0", "0">>,
      <<"a", "b", "c">>,
      <<"5", " ", "0", "0", "0">>,
      <<"5", ".", "0", ".", "0">>,
      <<".">>,
      <<"+">>,
      <<"-">>,
      <<>>,
      <<"R", "E", "L", "I", "A", "N", "C", "E">>,
      <<"t", "c", "s", ".", "n", "s">>,
      <<"L", "T", ".", "B", "O">>,
      <<"A", "B", "C", "D", "E", "F", "G", "H", "I", "J", "K", "L", "M", "N", "O", "P", "Q", "R", "S", "T", "U">>,
      <<"A", "B", "C", "D", "E", "F", "G", "H", "I", "J", "K", "L", "M", "N", "O", "P", "Q", "R", "S", "T">>,
      <<"X", ".", "N", "S">> }

Digits == <<"0", "1", "2", "3", "4", "5", "6", "7", "8", "9">>

IsDigit(c) == \E i \in 1..Len(Digits) : Digits[i] = c

DigitValue(c) == (CHOOSE i \in 1..Len(Digits) : Digits[i] = c) - 1

RECURSIVE DecimalValue(_)
DecimalValue(str) ==
    IF str = <<>> THEN 0
    ELSE DecimalValue(SubSeq(str, 1, Len(str) - 1)) * 10
         + DigitValue(str[Len(str)])

RECURSIVE TrimZeros(_)
TrimZeros(str) ==
    IF str # <<>> /\ str[Len(str)] = "0"
    THEN TrimZeros(SubSeq(str, 1, Len(str) - 1))
    ELSE str

\* str.strip()
RECURSIVE lstrip(_)
lstrip(str) ==
    IF str # <<>> /\ Head(str) = " " THEN lstrip(Tail(str)) ELSE str

RECURSIVE rstrip(_)
rstrip(str) ==
    IF str # <<>> /\ str[Len(str)] = " "
    THEN rstrip(SubSeq(str, 1, Len(str) - 1))
    ELSE str

strip(str) == rstrip(lstrip(str))

\* a float: not a number, an infinity, or a finite decimal given by its
\* sign, its whole part and the digits of its fraction
Float(kind, negative, whole, fraction) ==
    [kind |-> kind, negative |-> negative, whole |-> whole,
     fraction |-> fraction]

ValueError == Float("ValueError", FALSE, 0, <<>>)

\* float(str)
float(str) ==
    LET s == strip(str)
        signed == s # <<>> /\ Head(s) \in {"+", "-"}
        negative == signed /\ Head(s) = "-"
        body == IF signed THEN Tail(s) ELSE s
        points == { i \in 1..Len(body) : body[i] = "." }
        p == IF points = {} THEN Len(body) + 1
             ELSE CHOOSE i \in points : TRUE
        whole == SubSeq(body, 1, p - 1)
        fraction == SubSeq(body, p + 1, Len(body))
    IN  IF upper(body) = <<"N", "A", "N">>
        THEN Float("nan", negative, 0, <<>>)
        ELSE IF upper(body) \in { <<"I", "N", "F">>,
                                  <<"I", "N", "F", "I", "N", "I", "T", "Y">> }
        THEN Float("inf", negative, 0, <<>>)
        ELSE IF /\ Cardinality(points) <= 1
                /\ Len(whole) + Len(fraction) > 0
                /\ \A i \in 1..Len(whole) : IsDigit(whole[i])
                /\ \A i \in 1..Len(fraction) : IsDigit(fraction[i])
        THEN Float("finite", negative, DecimalValue(whole),
                   TrimZeros(fraction))
        ELSE ValueError

\* x < n for a float x and a natural number n; every comparison with
\* not-a-number is false
LessThan(x, n) ==
    CASE x.kind = "nan" -> FALSE
      [] x.kind = "inf" -> x.negative
      [] x.kind = "finite" -> x.negative \/ x.whole < n

Comma == <<",">>

\* receive_capital: the capital read from each message
ParsedCapital ==
    [text \in Messages |-> float(strip(remove(text, Comma)))]

\* receive_stock: the symbol read from each message
CleanedSymbol ==
    [text \in Messages |->
        remove(remove(upper(strip(text)), DotNS), DotBO)]

\* receive_stock: the sector passed to analyze_stock for each message,
\* tabulated
MessageSectors ==
    { [text |-> text,
       sector |-> IF detect_sector(CleanedSymbol[text]) = "UNKNOWN"
                  THEN "OTHER"
                  ELSE detect_sector(CleanedSymbol[text])] :
        text \in Messages }

DetectedSector(text) ==
    (CHOOSE entry \in MessageSectors : entry.text = text).sector

\* what receive_stock makes of the analyze_stock call
AnalysisOutcomes == {"error", "result", "exception"}

Handled(handler, text, reply, capital, sec) ==
    [handler |-> handler, text |-> text, state |-> conversation,
     user_data |-> user_data, reply |-> reply, capital |-> capital,
     sector |-> sec]

BotInit == CallersIdle /\ Constructed(BotConfig)

\* /start when no conversation is running
Start ==
    /\ conversation = "END"
    /\ nupdates < MaxUpdates
    /\ conversation' = "CAPITAL"
    /\ handled' = Handled("start", <<"/", "s", "t", "a", "r", "t">>,
                          "welcome", ValueError, "NONE")
    /\ nupdates' = nupdates + 1
    /\ UNCHANGED <<user_data, lookupVars, scanVars, orchestratorVars>>

\* a text message in state CAPITAL
ReceiveCapital ==
    /\ conversation = "CAPITAL"
    /\ nupdates < MaxUpdates
    /\ \E text \in Messages :
          LET capital == ParsedCapital[text]
          IN  IF capital.kind = "ValueError"
              THEN /\ conversation' = "CAPITAL"
                   /\ handled' = Handled("receive_capital", text,
                                         "numbers_only", ValueError, "NONE")
                   /\ UNCHANGED user_data
              ELSE IF LessThan(capital, MinCapital)
              THEN /\ conversation' = "CAPITAL"
                   /\ handled' = Handled("receive_capital", text,
                                         "minimum", capital, "NONE")
                   /\ UNCHANGED user_data
              ELSE /\ user_data' = Store(user_data, "capital", capital)
                   /\ conversation' = "STOCK"
                   /\ handled' = Handled("receive_capital", text,
                                         "perfect", capital, "NONE")
    /\ nupdates' = nupdates + 1
    /\ UNCHANGED <<lookupVars, scanVars, orchestratorVars>>

\* a text message in state STOCK
ReceiveStock ==
    /\ conversation = "STOCK"
    /\ nupdates < MaxUpdates
    /\ \E text \in Messages :
          LET sym == CleanedSymbol[text]
              capital == IF "capital" \in DOMAIN user_data
                         THEN user_data.capital
                         ELSE Float("finite", FALSE, DefaultCapital, <<>>)
              sec == DetectedSector(text)
          IN  IF Len(sym) < SymbolLenMin \/ Len(sym) > SymbolLenMax
              THEN handled' = Handled("receive_stock", text,
                                      "invalid_symbol", capital, "NONE")
              ELSE \E outcome \in AnalysisOutcomes :
                      handled' = Handled("receive_stock", text,
                                         CASE outcome = "error" -> "error"
                                           [] outcome = "result" -> "analysis"
                                           [] outcome = "exception"
                                                -> "error_occurred",
                                         capital, sec)
    /\ conversation' = "STOCK"
    /\ nupdates' = nupdates + 1
    /\ UNCHANGED <<user_data, lookupVars, scanVars, orchestratorVars>>

\* /cancel in a running conversation
Cancel ==
    /\ conversation \in {"CAPITAL", "STOCK"}
    /\ nupdates < MaxUpdates
    /\ conversation' = "END"
    /\ handled' = Handled("cancel", <<"/", "c", "a", "n", "c", "e", "l">>,
                          "bye", ValueError, "NONE")
    /\ nupdates' = nupdates + 1
    /\ UNCHANGED <<user_data, lookupVars, scanVars, orchestratorVars>>

BotNext == Start \/ ReceiveCapital \/ ReceiveStock \/ Cancel

BotSpec == BotInit /\ [][BotNext]_vars

(***************************************************************************)
(* Properties.                                                             *)
(***************************************************************************)
OutcomeCount(kind) ==
    Cardinality({ i \in 1..Len(outcomes) : outcomes[i].outcome = kind })

LastOutcome == outcomes[Len(outcomes)]

RegimeKnown == regime_result.direction # "NONE"

EligibilityKnown == Invoked("validate_stock")

NoneInvoked(ops) == \A op \in ops : ~Invoked(op)

AfterRegimeStages ==
    {"validate_stock", "engine1.scan_for_setups", "engine2.scan_for_setups",
     "calculate_probability", "meets_threshold", "can_open_new_trade",
     "calculate_position_size"}

AfterEligibilityStages == AfterRegimeStages \ {"validate_stock"}

\* C1: when the regime admits neither direction the call returns NO_TRADE
\* with no signals, and the validator, the scanners, the scorer and the
\* admission and sizing of the governor are not invoked in that call.
C1_RegimeBlockedNoTrade ==
    (RegimeKnown /\ ~regime_result.eligible_for_long
                 /\ ~regime_result.eligible_for_short)
    => /\ pc \in {"regime_checked", "returned"}
       /\ NoneInvoked(AfterRegimeStages)
       /\ all_signals = <<>>
       /\ pc = "returned" => /\ Status(result) = "NO_TRADE"
                             /\ SignalsOf(result) = <<>>
                             /\ result.regime = regime_result.direction

C1_Witness ==
    /\ pc = "returned"
    /\ RegimeKnown
    /\ ~regime_result.eligible_for_long
    /\ ~regime_result.eligible_for_short
    /\ Status(result) = "NO_TRADE"

\* C2 (as amended): when no stock data is fetched the call returns the
\* dictionary with the error text and the symbol and without a status entry,
\* and nothing after the fetches runs: no VIX update, regime check,
\* eligibility check, scan, scoring, admission or sizing; the portfolio is
\* as it was when the call began.
C2_NoDataReturnsError ==
    (pc # "idle" /\ ~stock_data.present)
    => /\ pc \in {"fetched", "returned"}
       /\ trace = <<"fetch_stock_data", "fetch_index_data", "get_current_vix">>
       /\ risk_governor = pre_admission
       /\ pc = "returned" =>
            /\ result = [error |-> "Failed to fetch stock data",
                         symbol |-> symbol]
            /\ Status(result) = "None"

C2_Witness ==
    /\ pc = "returned"
    /\ ~stock_data.present
    /\ "error" \in DOMAIN result
    /\ ncalls = 2
    /\ Len(risk_governor.open_positions) > 0

\* C2 (as stated): when no stock data is fetched the result has status NO_DATA.
C2_Original ==
    (pc = "returned" /\ ~stock_data.present) => Status(result) = "NO_DATA"

\* C3: when the regime admits a direction and the stock is not eligible the
\* call returns NOT_ELIGIBLE with the whole warnings sequence, in order, and
\* the regime direction; scanners, scorer, admission and sizing are not
\* invoked in that call.
C3_NotEligibleCarriesAllWarnings ==
    (EligibilityKnown /\ ~eligibility_result.is_eligible)
    => /\ pc \in {"validated", "returned"}
       /\ NoneInvoked(AfterEligibilityStages)
       /\ pc = "returned" =>
            /\ Status(result) = "NOT_ELIGIBLE"
            /\ result.reason = eligibility_result.warnings
            /\ result.regime = regime_result.direction
            /\ SignalsOf(result) = <<>>

C3_Witness ==
    /\ pc = "returned"
    /\ EligibilityKnown
    /\ ~eligibility_result.is_eligible
    /\ Len(eligibility_result.warnings) = 2
    /\ Len(result.reason) = 2

ThresholdOfLabel(label) == IF label = "MICRO-PROFIT" THEN 700 ELSE 650

ThresholdOfEngine(engine) == IF engine = "MICRO" THEN 700 ELSE 650

\* C5: every signal has a probability at or above the threshold of its
\* engine (70.0 Micro, 65.0 BigRunner, both inclusive); a setup is dropped
\* at the threshold gate exactly when its probability is below it.
C5_SignalsMeetThreshold ==
    /\ \A i \in 1..Len(all_signals) :
          all_signals[i].signal.ai_probability
             >= ThresholdOfLabel(all_signals[i].signal.engine_type)
    /\ \A i \in 1..Len(SignalsOf(result)) :
          result.signals[i].signal.ai_probability
             >= ThresholdOfLabel(result.signals[i].signal.engine_type)
    /\ (pc = "loop" /\ outcomes # <<>>) =>
          (LastOutcome.outcome = "below_threshold"
             <=> probability_result.final_probability
                    < ThresholdOfEngine(LastOutcome.engine))

C5_Witness ==
    /\ pc = "loop"
    /\ \E i \in 1..Len(all_signals) :
          /\ all_signals[i].signal.engine_type = "MICRO-PROFIT"
          /\ all_signals[i].signal.ai_probability = 700
    /\ \E i \in 1..Len(all_signals) :
          /\ all_signals[i].signal.engine_type = "BIG-RUNNER"
          /\ all_signals[i].signal.ai_probability = 650
    /\ LastOutcome = [engine |-> "BIG_RUNNER", outcome |-> "below_threshold"]
    /\ probability_result.final_probability = 649
    /\ outcomes[1] = [engine |-> "MICRO", outcome |-> "below_threshold"]

\* C6: a setup dropped at a gate does not end the analysis: every setup of
\* both scanners is scored and gated, the signals are exactly the setups
\* that passed both gates, and the call returns SUCCESS, also with no signal.
C6_RejectionDropsOnlyThatSetup ==
    /\ pc = "loop" =>
          Len(outcomes) = (IF engine_type = "MICRO" THEN 0
                           ELSE Len(engine1_setups)) + idx - 1
    /\ (pc = "returned" /\ EligibilityKnown /\ eligibility_result.is_eligible)
       => /\ Status(result) = "SUCCESS"
          /\ Len(outcomes) = Len(engine1_setups) + Len(engine2_setups)
          /\ TimesInvoked("calculate_probability") = Len(outcomes)
          /\ TimesInvoked("meets_threshold") = Len(outcomes)
          /\ Len(result.signals) = OutcomeCount("signal")
          /\ result.signals = all_signals

C6_Witness ==
    /\ pc = "returned"
    /\ Status(result) = "SUCCESS"
    /\ Len(engine1_setups) = 2
    /\ Len(engine2_setups) = 2
    /\ outcomes[1].outcome = "below_threshold"
    /\ outcomes[2].outcome = "signal"
    /\ outcomes[3].outcome = "below_threshold"
    /\ outcomes[4].outcome = "risk_rejected"

\* C7 (as stated): when the regime admits a direction and the stock is
\* eligible, both scanners are run (both engines being enabled).
C7_BothScannersRun ==
    (/\ pc = "returned"
     /\ RegimeKnown
     /\ regime_result.eligible_for_long \/ regime_result.eligible_for_short
     /\ EligibilityKnown
     /\ eligibility_result.is_eligible
     /\ config.enable_engine1
     /\ config.enable_engine2)
    => /\ Invoked("engine1.scan_for_setups")
       /\ Invoked("engine2.scan_for_setups")

\* C8 (as stated): every signal has a direction the regime of its analysis
\* admits.
C8_SignalDirectionAdmitted ==
    \A i \in 1..Len(all_signals) :
        /\ all_signals[i].signal.trade_type = "LONG"
              => regime_result.eligible_for_long
        /\ all_signals[i].signal.trade_type = "SHORT"
              => regime_result.eligible_for_short

\* C9: a setup the governor rejects gets no signal and no sizing, and the
\* portfolio after it is the portfolio before its admission check.
C9_RejectionLeavesPortfolio ==
    /\ (pc = "risk_checked" /\ ~risk_check.allowed)
          => risk_governor = pre_admission
    /\ pc = "sized" => risk_check.allowed
    /\ (pc = "loop" /\ outcomes # <<>> /\ LastOutcome.outcome = "risk_rejected")
          => /\ risk_governor = pre_admission
             /\ ~risk_check.allowed
             /\ risk_check.reason # "None"
    /\ pc \in {"loop", "returned"} =>
          /\ Len(all_signals) = OutcomeCount("signal")
          /\ TimesInvoked("calculate_position_size") = OutcomeCount("signal")

C9_Witness ==
    /\ pc = "loop"
    /\ outcomes # <<>>
    /\ LastOutcome.outcome = "risk_rejected"
    /\ Len(risk_governor.open_positions) = 2
    /\ risk_governor.open_positions[2].risk_pct > 0
    /\ risk_governor = pre_admission

\* C10: the position size of every signal is a natural number whose notional
\* at the entry price does not exceed the capital; it is
\* floor(capital * risk / (entry - stop)), not below zero, clamped to the
\* capital, for the entry, stop and probability of that signal.
C10_PositionSizeWithinCapital ==
    \A i \in 1..Len(all_signals) :
        LET s    == all_signals[i]
            dist == s.signal.entry - s.signal.stoploss
            raw  == IF dist > 0
                    THEN (config.capital * s.risk_pct) \div (10000 * dist)
                    ELSE 0
        IN  /\ s.position_size \in Nat
            /\ s.position_size * s.signal.entry <= config.capital
            /\ s.position_size = Min(raw, config.capital \div s.signal.entry)
            /\ s.risk_pct = RiskBudget(s.signal.ai_probability)
            /\ s.signal.risk_per_trade = s.risk_pct

C10_Witness ==
    \E i \in 1..Len(all_signals) :
        /\ all_signals[i].signal.entry = 1000
        /\ all_signals[i].signal.stoploss = 999
        /\ all_signals[i].position_size = 1000
        /\ all_signals[i].position_size * all_signals[i].signal.entry
              = config.capital

\* C11: in every signal the trend strength is the band of the trend score
\* the signal itself stores (Strong from 75, Medium from 50 to below 75, Weak
\* below 50), the stored trend score is the one the scorer returned for the
\* candidate, and the index alignment is YES exactly when the regime of the
\* call is index-aligned: deriving both again from what is stored gives the
\* stored values.
C11_TrendStrengthBands ==
    \A i \in 1..Len(all_signals) :
        LET s == all_signals[i].signal
            t == s.probability_components.trend
        IN  /\ t = probability_result.trend_score
            /\ t >= 75 => s.trend_strength = "Strong"
            /\ (t >= 50 /\ t < 75) => s.trend_strength = "Medium"
            /\ t < 50 => s.trend_strength = "Weak"
            /\ t = 74 => s.trend_strength # "Weak"
            /\ regime_result.index_aligned => s.index_alignment = "YES"
            /\ ~regime_result.index_aligned => s.index_alignment = "NO"

C11_Witness ==
    /\ Len(all_signals) = 1
    /\ all_signals[1].signal.probability_components.trend = 75
    /\ all_signals[1].signal.trend_strength = "Strong"
    /\ all_signals[1].signal.index_alignment = "NO"
    /\ all_signals[1].signal.ai_probability = 650

\* C12 (as stated): in every signal the entry, the stop and the first target
\* are positive and ordered as the direction demands (long: stop below entry
\* below target; short: the inverse), whatever setup _process_setup was
\* handed: a setup that is not well formed does not become a signal.
C12_SignalPricesOrdered ==
    \A i \in 1..Len(all_signals) :
        LET s == all_signals[i].signal
        IN  /\ s.entry > 0
            /\ s.stoploss > 0
            /\ s.target_1 > 0
            /\ s.trade_type = "LONG"
                  => (s.stoploss < s.entry /\ s.entry < s.target_1)
            /\ s.trade_type = "SHORT"
                  => (s.target_1 < s.entry /\ s.entry < s.stoploss)

\* the place among the processed setups of the one that became signal k
SignalIndex(k) ==
    CHOOSE j \in 1..Len(outcomes) :
        /\ outcomes[j].outcome = "signal"
        /\ Cardinality({ i \in 1..j : outcomes[i].outcome = "signal" }) = k

\* C13: every setup that passes both gates yields exactly one signal, and
\* that signal tells which scanner produced the setup: a setup of engine one
\* gives label MICRO-PROFIT, runner mode DISABLED and the 1.0R target as
\* first target, a setup of engine two gives label BIG-RUNNER, runner mode
\* ENABLED and the partial exit target as first target.
C13_LabelIdentifiesScanner ==
    /\ Len(all_signals) = OutcomeCount("signal")
    /\ \A k \in 1..Len(all_signals) :
          LET j == SignalIndex(k)
              s == all_signals[k].signal
          IN  IF j <= Len(engine1_setups)
              THEN /\ outcomes[j].engine = "MICRO"
                   /\ s.engine_type = "MICRO-PROFIT"
                   /\ s.runner_mode = "DISABLED"
                   /\ s.target_1 = engine1_setups[j].targets.R10
                   /\ s.entry = engine1_setups[j].entry_price
                   /\ s.trade_type = engine1_setups[j].direction
              ELSE /\ outcomes[j].engine = "BIG_RUNNER"
                   /\ s.engine_type = "BIG-RUNNER"
                   /\ s.runner_mode = "ENABLED"
                   /\ s.target_1 = engine2_setups[j - Len(engine1_setups)]
                                        .partial_exit_target
                   /\ s.entry = engine2_setups[j - Len(engine1_setups)]
                                     .entry_price
                   /\ s.trade_type = engine2_setups[j - Len(engine1_setups)]
                                          .direction

C13_Witness ==
    /\ pc = "returned"
    /\ Len(engine1_setups) = 2
    /\ outcomes[1] = [engine |-> "MICRO", outcome |-> "below_threshold"]
    /\ outcomes[2] = [engine |-> "MICRO", outcome |-> "signal"]
    /\ Len(result.signals) = 2
    /\ result.signals[1].signal.engine_type = "MICRO-PROFIT"
    /\ result.signals[1].signal.trade_type = "LONG"
    /\ result.signals[1].signal.target_1 = 1001
    /\ result.signals[1].signal.runner_mode = "DISABLED"
    /\ result.signals[2].signal.engine_type = "BIG-RUNNER"
    /\ result.signals[2].signal.target_1 = 260
    /\ result.signals[2].signal.runner_mode = "ENABLED"

\* the places in the table of the keys that contain the string or are
\* contained in it
FuzzyMatches(clean) ==
    { i \in Items : \/ contains(STOCK_SECTORS[i].key, clean)
                    \/ contains(clean, STOCK_SECTORS[i].key) }

\* C14: detect_sector returns a sector of the table or UNKNOWN.  With the
\* symbol in upper case and .NS and .BO removed: if it is a key, the sector
\* of that key, whatever the fuzzy matching would find; otherwise the sector
\* of the first key, in the order of the table, that contains it or is
\* contained in it; UNKNOWN exactly when there is no such key.  RELIANCE
\* gives ENERGY, TCS gives IT, RANDOMSTOCK gives UNKNOWN.
C14_DetectSectorLookup ==
    lookup_pc = "returned" =>
        LET clean == clean_symbol(lookup_symbol)
            found == FuzzyMatches(clean)
            first == CHOOSE i \in found : \A j \in found : i <= j
        IN  /\ lookup_sector \in AllSectors \cup {"UNKNOWN"}
            /\ IsKey(clean) => lookup_sector = SectorOfKey(clean)
            /\ (~IsKey(clean) /\ found # {})
                  => lookup_sector = SectorOfKey(STOCK_SECTORS[first].key)
            /\ lookup_sector = "UNKNOWN" <=> (~IsKey(clean) /\ found = {})
            /\ lookup_symbol = <<"R", "E", "L", "I", "A", "N", "C", "E">>
                  => lookup_sector = "ENERGY"
            /\ lookup_symbol = <<"r", "e", "l", "i", "a", "n", "c", "e",
                                 ".", "n", "s">>
                  => lookup_sector = "ENERGY"
            /\ lookup_symbol = <<"T", "C", "S">> => lookup_sector = "IT"
            /\ lookup_symbol = <<"T", "c", "s", ".", "B", "O">>
                  => lookup_sector = "IT"
            /\ lookup_symbol = <<"R", "A", "N", "D", "O", "M", "S", "T", "O",
                                 "C", "K">>
                  => lookup_sector = "UNKNOWN"

\* LT.NS is the key LT (INFRA), and the key HCLTECH (IT), which contains LT,
\* comes earlier in the table
C14_Witness ==
    /\ lookup_pc = "returned"
    /\ lookup_symbol = <<"L", "T", ".", "N", "S">>
    /\ clean_symbol(lookup_symbol) = <<"L", "T">>
    /\ lookup_sector = "INFRA"
    /\ fuzzy_match(<<"L", "T">>, 1) = "IT"

\* the setups of the call that got as far as the admission check
PastThreshold ==
    Cardinality({ i \in 1..Len(outcomes) :
                    outcomes[i].outcome # "below_threshold" })

\* C15: for every setup the stages run in the order scoring, threshold,
\* admission check, sizing, signal, each right after the one before it; the
\* admission check is made only for a setup that met the threshold, the
\* sizing only for a setup the governor allowed, and a signal is built only
\* after its sizing: as many admission checks as setups past the threshold,
\* as many sizings and signals as setups allowed.
C15_StagesInOrder ==
    /\ \A i \in 1..Len(trace) :
          /\ trace[i] = "meets_threshold"
                => (i > 1 /\ trace[i - 1] = "calculate_probability")
          /\ trace[i] = "can_open_new_trade"
                => (i > 1 /\ trace[i - 1] = "meets_threshold")
          /\ trace[i] = "calculate_position_size"
                => (i > 1 /\ trace[i - 1] = "can_open_new_trade")
          /\ trace[i] = "format_signal"
                => (i > 1 /\ trace[i - 1] = "calculate_position_size")
    /\ pc \in {"risk_checked", "sized"}
          => meets_threshold(probability_result.final_probability, engine_type)
    /\ pc = "sized" => risk_check.allowed
    /\ TimesInvoked("can_open_new_trade")
          = PastThreshold + (IF pc \in {"risk_checked", "sized"} THEN 1 ELSE 0)
    /\ TimesInvoked("calculate_position_size")
          = OutcomeCount("signal") + (IF pc = "sized" THEN 1 ELSE 0)
    /\ TimesInvoked("format_signal") = OutcomeCount("signal")
    /\ Len(all_signals) = OutcomeCount("signal")

C15_Witness ==
    /\ pc = "loop"
    /\ outcomes = <<[engine |-> "MICRO", outcome |-> "below_threshold"],
                    [engine |-> "MICRO", outcome |-> "signal"]>>
    /\ trace = TraceToScoring("MICRO")
                \o <<"meets_threshold", "calculate_probability",
                     "meets_threshold", "can_open_new_trade",
                     "calculate_position_size", "format_signal">>
    /\ Len(all_signals) = 1

\* C16: the admission check and the sizing of a setup are one unit with
\* respect to the portfolio.  The step after an admission check belongs to
\* the same setup of the same call: the sizing when the check allowed, the
\* rejection when it did not; nothing else, no other admission check, no
\* sizing of another setup and no update of the VIX, reads or changes the
\* portfolio in between.  The sizing works on the portfolio as the admission
\* check of its own setup left it, and no limit is ever exceeded.
C16_StateAtSizing ==
    /\ pc \in {"risk_checked", "sized"} =>
          /\ risk_governor.current_vix = pre_admission.current_vix
          /\ risk_governor.total_capital = pre_admission.total_capital
          /\ risk_check = can_open_new_trade(pre_admission, symbol, sector,
                              Current.direction,
                              probability_result.final_probability,
                              engine_type)
    /\ pc = "risk_checked" =>
          risk_governor = AfterAdmission(pre_admission, symbol, sector,
                              Current.direction,
                              probability_result.final_probability,
                              engine_type)
    /\ pc = "sized" =>
          risk_governor = AfterSizing(
                              AfterAdmission(pre_admission, symbol, sector,
                                  Current.direction,
                                  probability_result.final_probability,
                                  engine_type),
                              sizing.risk_pct)
    /\ Len(risk_governor.open_positions) <= MaxOpenPositions
    /\ \A e \in {"MICRO", "BIG_RUNNER"} :
          risk_governor.engine_counts[e] <= MaxPositionsPerEngine
    /\ \A sec \in Sectors :
          SectorCount(risk_governor, sec) <= MaxPositionsPerSector
    /\ \A dir \in {"LONG", "SHORT"} :
          DirectionCount(risk_governor, dir) <= MaxSameDirection

C16_NothingBetween ==
    pc = "risk_checked" =>
        /\ ncalls' = ncalls
        /\ symbol' = symbol
        /\ engine_type' = engine_type
        /\ risk_check' = risk_check
        /\ risk_check.allowed =>
              /\ pc' = "sized"
              /\ idx' = idx
              /\ trace' = Append(trace, "calculate_position_size")
              /\ risk_governor' = AfterSizing(risk_governor, sizing'.risk_pct)
        /\ ~risk_check.allowed =>
              /\ pc' = "loop"
              /\ idx' = idx + 1
              /\ trace' = trace
              /\ risk_governor' = risk_governor

FirstCall(op) == CHOOSE i \in 1..Len(trace) :
                    /\ trace[i] = op
                    /\ \A j \in 1..(i - 1) : trace[j] # op

\* C17: a call that obtains stock data applies update_vix exactly once, with
\* the VIX reading of that call, before its regime check and before every
\* admission check of it, so that every admission check sees the reading of
\* its own call; the reading of the governor is the one of the call also
\* when the call returns NO_TRADE or NOT_ELIGIBLE.  A call that obtains no
\* stock data does not apply update_vix and leaves the portfolio, the VIX
\* reading included, as it was when the call began.
C17_VixUpdatedOnce ==
    /\ (pc \notin {"idle", "fetched"} /\ stock_data.present) =>
          /\ TimesInvoked("update_vix") = 1
          /\ risk_governor.current_vix = vix
          /\ Invoked("analyze_regime")
                => FirstCall("update_vix") < FirstCall("analyze_regime")
          /\ Invoked("can_open_new_trade")
                => FirstCall("update_vix") < FirstCall("can_open_new_trade")
    /\ pc \in {"risk_checked", "sized"} =>
          /\ pre_admission.current_vix = vix
          /\ risk_check.reason = "VIX too high" => vix > VixCeiling
          /\ vix > VixCeiling => ~risk_check.allowed
    /\ (pc = "returned" /\ Status(result) \in {"NO_TRADE", "NOT_ELIGIBLE"})
          => /\ risk_governor.current_vix = vix
             /\ risk_governor.open_positions = pre_admission.open_positions
    /\ pc = "fetched" =>
          /\ ~Invoked("update_vix")
          /\ risk_governor = pre_admission
    /\ (pc = "returned" /\ ~stock_data.present) =>
          /\ ~Invoked("update_vix")
          /\ risk_governor = pre_admission

\* the second call returns NO_TRADE and has changed the reading from 15 to 30
C17_Witness ==
    /\ pc = "returned"
    /\ ncalls = 2
    /\ Status(result) = "NO_TRADE"
    /\ vix = 30
    /\ pre_admission.current_vix = 15
    /\ risk_governor.current_vix = 30
    /\ Len(risk_governor.open_positions) > 0

\* the signals of the analyses 1..n of the scan that ended in SUCCESS, in
\* the order of the analyses
RECURSIVE SuccessSignals(_)
SuccessSignals(n) ==
    IF n = 0 THEN <<>>
    ELSE SuccessSignals(n - 1)
         \o (IF Status(scan_history[n]) = "SUCCESS"
             THEN SignalsOf(scan_history[n]) ELSE <<>>)

\* the number of signals in the entries of a dictionary of results whose
\* status is SUCCESS
RECURSIVE SignalsInEntries(_, _)
SignalsInEntries(dict, keys) ==
    IF keys = {} THEN 0
    ELSE LET k == CHOOSE x \in keys : TRUE
         IN  (IF Status(dict[k]) = "SUCCESS" THEN Len(SignalsOf(dict[k]))
              ELSE 0)
             + SignalsInEntries(dict, keys \ {k})

LastAnalysisOf(sym) ==
    CHOOSE i \in 1..Len(symbols) :
        /\ symbols[i] = sym
        /\ \A j \in (i + 1)..Len(symbols) : symbols[j] # sym

Distinct(seq) ==
    \A i, j \in 1..Len(seq) : i # j => seq[i] # seq[j]

\* C18 (as amended): scan_multiple_stocks analyses the symbols one at a time
\* in the order of the list, every one of them whatever the analyses before
\* it returned.  total_stocks_scanned is the length of the list;
\* total_signals is the length of the signals list, which holds the signals
\* of the analyses that ended in SUCCESS, in order, and nothing of those that
\* ended otherwise.  detailed_results has one entry per distinct symbol of
\* the list, the result of the last analysis of that symbol.  When no symbol
\* occurs twice in the list there is one entry per symbol of the list and
\* total_signals is the sum of the signal counts of the SUCCESS entries.
C18_ScanTotals ==
    /\ Len(scan_history) <= Len(symbols)
    /\ \A i \in 1..Len(scan_history) : scan_history[i].symbol = symbols[i]
    /\ scan_signals = SuccessSignals(Len(scan_history))
    /\ scan_pc = "returned" =>
          /\ Len(scan_history) = Len(symbols)
          /\ scan_return.total_stocks_scanned = Len(symbols)
          /\ scan_return.total_signals = Len(scan_return.signals)
          /\ scan_return.signals = SuccessSignals(Len(symbols))
          /\ DOMAIN scan_return.detailed_results
                = { symbols[i] : i \in 1..Len(symbols) }
          /\ \A sym \in DOMAIN scan_return.detailed_results :
                scan_return.detailed_results[sym]
                   = scan_history[LastAnalysisOf(sym)]
          /\ Distinct(symbols) =>
                /\ Cardinality(DOMAIN scan_return.detailed_results)
                      = Len(symbols)
                /\ scan_return.total_signals
                      = SignalsInEntries(scan_return.detailed_results,
                                         DOMAIN scan_return.detailed_results)

\* the first symbol yields no stock data, the scan goes on and the second
\* symbol yields two signals
C18_Witness ==
    /\ scan_pc = "returned"
    /\ Len(symbols) = 2
    /\ Distinct(symbols)
    /\ "error" \in DOMAIN scan_history[1]
    /\ Status(scan_history[2]) = "SUCCESS"
    /\ Len(scan_history[2].signals) = 2
    /\ scan_return.total_signals = 2
    /\ scan_return.total_stocks_scanned = 2

\* C18 (as stated): detailed_results has one entry per symbol of the list and
\* total_signals is the sum of the signal counts of its SUCCESS entries.
C18_Original ==
    scan_pc = "returned" =>
        /\ Cardinality(DOMAIN scan_return.detailed_results) = Len(symbols)
        /\ scan_return.total_signals
              = SignalsInEntries(scan_return.detailed_results,
                                 DOMAIN scan_return.detailed_results)

\* the setups the two scanners returned to the current call, in the order
\* in which analyze_stock processes them
ProcessedSetups == engine1_setups \o engine2_setups

Labelled(signals, label) ==
    { k \in 1..Len(signals) : signals[k].signal.engine_type = label }

\* C19: an engine switched off in the configuration is never scanned and
\* contributes no signal: with enable_engine1 false no signal is labelled
\* MICRO-PROFIT, with enable_engine2 false none is labelled BIG-RUNNER, and
\* with both off a call that passes the regime and eligibility gates returns
\* SUCCESS with an empty list of signals.  In a result every MICRO-PROFIT
\* signal stands before every BIG-RUNNER signal, and the signals of each
\* scanner stand in the order of the setups the scanner returned.
C19_DisabledEngineSilent ==
    /\ ~config.enable_engine1 =>
          /\ ~Invoked("engine1.scan_for_setups")
          /\ engine1_setups = <<>>
          /\ Labelled(all_signals, "MICRO-PROFIT") = {}
          /\ Labelled(SignalsOf(result), "MICRO-PROFIT") = {}
    /\ ~config.enable_engine2 =>
          /\ ~Invoked("engine2.scan_for_setups")
          /\ engine2_setups = <<>>
          /\ Labelled(all_signals, "BIG-RUNNER") = {}
          /\ Labelled(SignalsOf(result), "BIG-RUNNER") = {}
    /\ (/\ ~config.enable_engine1
        /\ ~config.enable_engine2
        /\ pc = "returned"
        /\ Invoked("validate_stock")
        /\ ~NotEligible) =>
          /\ Status(result) = "SUCCESS"
          /\ result.signals = <<>>
    /\ \A k \in Labelled(all_signals, "MICRO-PROFIT") :
          \A l \in Labelled(all_signals, "BIG-RUNNER") : k < l
    /\ \A k \in 1..Len(all_signals) :
          /\ all_signals[k].signal.entry
                = ProcessedSetups[SignalIndex(k)].entry_price
          /\ all_signals[k].signal.trade_type
                = ProcessedSetups[SignalIndex(k)].direction
          /\ all_signals[k].signal.engine_type = "MICRO-PROFIT"
                <=> SignalIndex(k) <= Len(engine1_setups)
    /\ (pc = "returned" /\ Status(result) = "SUCCESS") =>
          result.signals = all_signals

\* engine one is switched off, the regime admits long trades, and the call
\* returns the two signals of engine two in the order of its setups
C19_Witness ==
    /\ pc = "returned"
    /\ ~config.enable_engine1
    /\ config.enable_engine2
    /\ regime_result.eligible_for_long
    /\ Status(result) = "SUCCESS"
    /\ Len(engine2_setups) = 2
    /\ engine2_setups[1].direction = "SHORT"
    /\ engine2_setups[2].direction = "LONG"
    /\ Len(result.signals) = 2
    /\ result.signals[1].signal.trade_type = "SHORT"
    /\ result.signals[2].signal.trade_type = "LONG"
    /\ Labelled(result.signals, "BIG-RUNNER") = {1, 2}

\* the message, commas and surrounding blanks removed, reads as a number
\* that is at least 5000
NumberAtLeast(text, n) ==
    LET x == ParsedCapital[text]
    IN  \/ x.kind = "inf" /\ ~x.negative
        \/ x.kind = "finite" /\ ~x.negative /\ x.whole >= n

\* C20 (as stated): receive_capital moves from CAPITAL to STOCK only when
\* the message parses as a number that is at least 5000, and only then
\* stores it as the capital of the session; any other message keeps the
\* state CAPITAL and the stored capital.  receive_stock never leaves state
\* STOCK.  Hence a stored capital is a number that is at least 5000, and a
\* stock is analysed only after a capital was accepted.
C20_CapitalAccepted ==
    /\ handled.handler = "receive_capital" =>
          /\ handled.state = "CAPITAL"
          /\ IF NumberAtLeast(handled.text, MinCapital)
             THEN /\ conversation = "STOCK"
                  /\ user_data = [capital |-> ParsedCapital[handled.text]]
             ELSE /\ conversation = "CAPITAL"
                  /\ user_data = handled.user_data
    /\ handled.handler = "receive_stock" =>
          /\ handled.state = "STOCK"
          /\ conversation = "STOCK"
          /\ user_data = handled.user_data
          /\ "capital" \in DOMAIN user_data
    /\ "capital" \in DOMAIN user_data =>
          /\ user_data.capital.kind \in {"finite", "inf"}
          /\ ~user_data.capital.negative
          /\ user_data.capital.kind = "finite" =>
                user_data.capital.whole >= MinCapital

=============================================================================
